---- MODULE Spec2Model ----
(***************************************************************************)
(* go-wework-svc: the callback authentication and message-cipher engine    *)
(* (internal/wework crypto and service), the HTTP callback handler and the *)
(* detached forward to the AI collaborator.                                *)
(*                                                                         *)
(* Strings and byte slices are sequences of byte values 0..255 (a string   *)
(* literal of the source is written as its ASCII codes).                   *)
(***************************************************************************)
EXTENDS Integers, Sequences, FiniteSets, TLC

\* aes.BlockSize
BlockSize == 16

----------------------------------------------------------------------------
(* Bytes *)

RECURSIVE XorBits(_, _)
\* bitwise exclusive or of two naturals, bit by bit
XorBits(a, b) ==
    IF a = 0 THEN b
    ELSE IF b = 0 THEN a
    ELSE ((a + b) % 2) + 2 * XorBits(a \div 2, b \div 2)

\* the exclusive or of two 4-bit values, tabulated
XorNibble ==
    SubSeq([a \in 1..16 |-> SubSeq([b \in 1..16 |-> XorBits(a - 1, b - 1)], 1, 16)], 1, 16)

\* a ^ b on bytes
Xor(a, b) ==
    16 * XorNibble[(a \div 16) + 1][(b \div 16) + 1] + XorNibble[(a % 16) + 1][(b % 16) + 1]

XorBytes(x, y) == [i \in 1..Len(x) |-> Xor(x[i], y[i])]

\* the sequence s as a tuple (forces the elements)
Seq2Tuple(s) == SubSeq(s, 1, Len(s))

\* strings.Contains(s, sub)
Contains(s, sub) ==
    \E i \in 0..(Len(s) - Len(sub)) : SubSeq(s, i + 1, i + Len(sub)) = sub

\* byte-wise lexicographic order of Go strings: a < b
StrLess(a, b) ==
    \/ /\ Len(a) < Len(b)
       /\ SubSeq(b, 1, Len(a)) = a
    \/ \E i \in 1..Len(a) :
          /\ i <= Len(b)
          /\ SubSeq(a, 1, i - 1) = SubSeq(b, 1, i - 1)
          /\ a[i] < b[i]

----------------------------------------------------------------------------
(* Error values: the text fmt.Errorf builds, as a sequence of fragments,   *)
(* and the sentinel errors errors.Is finds in the %w chain.  A fragment is *)
(* a literal of the source or a formatted operand together with where the  *)
(* operand's bytes come from.                                              *)

\* a literal of a format string
Lit(s) == [kind |-> "lit", lit |-> s, val |-> <<>>, from |-> "code"]
\* a %s operand: the bytes v
Str(v, origin) == [kind |-> "str", lit |-> "", val |-> v, from |-> origin]
\* a %d operand: the number n (a uint32 is given as its four bytes)
Num(n, origin) == [kind |-> "num", lit |-> "", val |-> n, from |-> origin]

Nil == [nil |-> TRUE, text |-> <<>>, is |-> {}]
Errorf(text) == [nil |-> FALSE, text |-> text, is |-> {}]
\* fmt.Errorf("<prefix>: %w", err)
Wrap(prefix, err) == [nil |-> FALSE, text |-> <<Lit(prefix)>> \o err.text, is |-> err.is]

----------------------------------------------------------------------------
(* encoding/base64, StdEncoding *)

B64Char(v) ==
    IF v < 26 THEN 65 + v
    ELSE IF v < 52 THEN 97 + (v - 26)
    ELSE IF v < 62 THEN 48 + (v - 52)
    ELSE IF v = 62 THEN 43 ELSE 47

B64Val(c) ==
    IF c >= 65 /\ c <= 90 THEN c - 65
    ELSE IF c >= 97 /\ c <= 122 THEN c - 71
    ELSE IF c >= 48 /\ c <= 57 THEN c + 4
    ELSE IF c = 43 THEN 62
    ELSE IF c = 47 THEN 63
    ELSE -1

\* base64.StdEncoding.EncodeToString
EncodeToString(src) ==
    LET n == Len(src)
        byteAt(i) == IF i <= n THEN src[i] ELSE 0
        ch(k) ==
            LET g == (k - 1) \div 4
                j == (k - 1) % 4
                b0 == byteAt(3 * g + 1)
                b1 == byteAt(3 * g + 2)
                b2 == byteAt(3 * g + 3)
            IN  IF j = 0 THEN B64Char(b0 \div 4)
                ELSE IF j = 1 THEN B64Char((b0 % 4) * 16 + (b1 \div 16))
                ELSE IF j = 2
                     THEN (IF 3 * g + 2 > n THEN 61 ELSE B64Char((b1 % 16) * 4 + (b2 \div 64)))
                     ELSE (IF 3 * g + 3 > n THEN 61 ELSE B64Char(b2 % 64))
    IN  Seq2Tuple([k \in 1..(4 * ((n + 2) \div 3)) |-> ch(k)])

\* base64.StdEncoding.DecodeString: CR and LF are skipped, the input is a
\* whole number of 4-character quanta, '=' only as the last one or two
\* characters; trailing bits are not checked (non-strict decoding).
DecodeString(s) ==
    LET t == SelectSeq(s, LAMBDA c : c # 13 /\ c # 10)
        n == Len(t)
        npad == IF n >= 1 /\ t[n] = 61
               THEN (IF n >= 2 /\ t[n - 1] = 61 THEN 2 ELSE 1)
               ELSE 0
        bad == {i \in 1..(n - npad) : B64Val(t[i]) < 0}
        sext(i) == IF i <= n - npad THEN B64Val(t[i]) ELSE 0
        byte(k) ==
            LET g == (k - 1) \div 3
                j == (k - 1) % 3
            IN  IF j = 0 THEN sext(4 * g + 1) * 4 + (sext(4 * g + 2) \div 16)
                ELSE IF j = 1 THEN (sext(4 * g + 2) % 16) * 16 + (sext(4 * g + 3) \div 4)
                ELSE (sext(4 * g + 3) % 4) * 64 + sext(4 * g + 4)
    IN  IF n % 4 = 0 /\ bad = {}
        THEN [err |-> Nil,
              bytes |-> Seq2Tuple([k \in 1..(3 * (n \div 4) - npad) |-> byte(k)])]
        ELSE [err |-> Errorf(<<Lit("illegal base64 data at input byte "),
                               Num(<<IF bad = {} THEN n
                                     ELSE (CHOOSE i \in bad : \A j \in bad : i <= j) - 1>>,
                                   "input")>>),
              bytes |-> <<>>]

----------------------------------------------------------------------------
(* crypto/aes and crypto/cipher.  The block cipher is a keyed permutation  *)
(* of 16-byte blocks; the permutation used here (byte substitution, byte   *)
(* rotation and two round keys) stands for AES-256.  CBC chaining is the   *)
(* library's.                                                              *)

SubByte(x) == (x * 167 + 91) % 256
InvSubByte(y) == ((y + 165) * 23) % 256

\* cipher.Block.Encrypt of block b under the 32-byte key
EncryptBlock(key, b) ==
    Seq2Tuple([i \in 1..BlockSize |->
        Xor(SubByte(Xor(b[((i + 4) % BlockSize) + 1], key[i])), key[BlockSize + i])])

\* cipher.Block.Decrypt
DecryptBlock(key, c) ==
    Seq2Tuple([j \in 1..BlockSize |->
        LET i == ((j + 10) % BlockSize) + 1
        IN  Xor(InvSubByte(Xor(c[i], key[BlockSize + i])), key[i])])

RECURSIVE CBCEncryptFrom(_, _, _)
CBCEncryptFrom(key, prev, src) ==
    IF Len(src) = 0 THEN <<>>
    ELSE LET c == EncryptBlock(key, XorBytes(SubSeq(src, 1, BlockSize), prev))
         IN  c \o CBCEncryptFrom(key, c, SubSeq(src, BlockSize + 1, Len(src)))

\* cipher.NewCBCEncrypter(block, iv).CryptBlocks
CBCEncrypt(key, iv, src) == CBCEncryptFrom(key, iv, src)

RECURSIVE CBCDecryptFrom(_, _, _)
CBCDecryptFrom(key, prev, src) ==
    IF Len(src) = 0 THEN <<>>
    ELSE LET c == SubSeq(src, 1, BlockSize)
         IN  Seq2Tuple(XorBytes(DecryptBlock(key, c), prev))
                 \o CBCDecryptFrom(key, c, SubSeq(src, BlockSize + 1, Len(src)))

RECURSIVE ECBDecrypt(_, _, _)
\* block-by-block decryption without chaining
ECBDecrypt(key, iv, src) ==
    IF Len(src) = 0 THEN <<>>
    ELSE DecryptBlock(key, SubSeq(src, 1, BlockSize))
             \o ECBDecrypt(key, iv, SubSeq(src, BlockSize + 1, Len(src)))

\* cipher.NewCBCDecrypter(block, iv).CryptBlocks
CBCDecrypt(key, iv, src) == CBCDecryptFrom(key, iv, src)

----------------------------------------------------------------------------
(* encoding/binary and 32-bit unsigned arithmetic.  A uint32 is kept as    *)
(* two 16-bit halves so that its sums wrap at 2^32 as Go's do.             *)

\* binary.BigEndian.Uint32
BigEndianUint32(b) == [hi |-> b[1] * 256 + b[2], lo |-> b[3] * 256 + b[4]]

\* binary.BigEndian.PutUint32
PutUint32(v) == <<v.hi \div 256, v.hi % 256, v.lo \div 256, v.lo % 256>>

\* uint32(n) of a non-negative int
Uint32(n) == [hi |-> (n \div 65536) % 65536, lo |-> n % 65536]

\* x + n in uint32 (n a small constant)
Add32(x, n) ==
    LET s == x.lo + n
    IN  [hi |-> (x.hi + (s \div 65536)) % 65536, lo |-> s % 65536]

Less32(a, b) == a.hi < b.hi \/ (a.hi = b.hi /\ a.lo < b.lo)

----------------------------------------------------------------------------
(* crypto/sha1 and fmt "%x".  The hash is taken to be collision-free: a    *)
(* digest is identified by the byte string hashed.  A signature string is  *)
(* a digest rendered in lowercase hex (what "%x" prints), the same digest  *)
(* in uppercase hex, or the empty string.                                  *)

\* fmt.Sprintf("%x", sha1.Sum(raw))
Sha1Hex(raw) == [sha1 |-> raw, hexcase |-> "lower"]

UpperHex(sig) == [sha1 |-> sig.sha1, hexcase |-> "upper"]

EmptySignature == [sha1 |-> <<>>, hexcase |-> "empty"]

----------------------------------------------------------------------------
(* internal/wework: cryptoImpl *)

\* NewCrypto: the 43-character key string plus "=" decodes to the AES key
NewCrypto(token, encodingAESKey, corpID) ==
    LET d == DecodeString(encodingAESKey \o <<61>>)
    IN  IF ~d.err.nil
        THEN [err |-> Wrap("decode encoding_aes_key: ", d.err), crypto |-> <<>>]
        ELSE IF Len(d.bytes) # 32
        THEN [err |-> Errorf(<<Lit("invalid aes key length: got "), Num(<<Len(d.bytes)>>, "config"),
                               Lit(", want 32")>>),
              crypto |-> <<>>]
        ELSE [err |-> Nil,
              crypto |-> [token |-> token, aesKey |-> d.bytes, corpID |-> corpID]]

RECURSIVE SortStrings(_)
\* sort.Strings
SortStrings(p) ==
    IF Len(p) = 0 THEN <<>>
    ELSE LET rest == SortStrings(Tail(p))
             x == Head(p)
             k == Cardinality({i \in 1..Len(rest) : StrLess(rest[i], x)})
         IN  SubSeq(rest, 1, k) \o <<x>> \o SubSeq(rest, k + 1, Len(rest))

RECURSIVE Join(_)
\* strings.Join(params, "")
Join(p) == IF Len(p) = 0 THEN <<>> ELSE Head(p) \o Join(Tail(p))

\* VerifySignature comparing the hex strings without regard to case
VerifySignatureFold(c, signature, timestamp, nonce, msgEncrypt) ==
    LET params == SortStrings(<<c.token, timestamp, nonce, msgEncrypt>>)
        raw == Join(params)
    IN  signature.hexcase \in {"lower", "upper"} /\ signature.sha1 = raw

\* cryptoImpl.VerifySignature
VerifySignature(c, signature, timestamp, nonce, msgEncrypt) ==
    LET params == SortStrings(<<c.token, timestamp, nonce, msgEncrypt>>)
        raw == Join(params)
        computed == Sha1Hex(raw)
    IN  computed = signature

\* pkcs7Pad without the full extra block for block-aligned data
pkcs7PadNoExtraBlock(data, blockSize) ==
    LET padding == (blockSize - (Len(data) % blockSize)) % blockSize
    IN  data \o [i \in 1..padding |-> padding]

\* pkcs7Pad
pkcs7Pad(data, blockSize) ==
    LET padding == blockSize - (Len(data) % blockSize)
    IN  data \o [i \in 1..padding |-> padding]

\* pkcs7Unpad trusting the last byte without looking at the bytes before it
pkcs7UnpadLastByteOnly(data) ==
    LET n == Len(data)
        padding == data[n]
    IN  IF n = 0
        THEN [err |-> Errorf(<<Lit("empty data")>>), data |-> <<>>]
        ELSE IF padding = 0 \/ padding > BlockSize \/ padding > n
        THEN [err |-> Errorf(<<Lit("invalid padding value: "), Num(<<padding>>, "plaintext")>>),
              data |-> <<>>]
        ELSE [err |-> Nil, data |-> SubSeq(data, 1, n - padding)]

\* pkcs7Unpad
pkcs7Unpad(data) ==
    LET n == Len(data)
        padding == data[n]
        wrong == {i \in (n - padding + 1)..n : data[i] # padding}
    IN  IF n = 0
        THEN [err |-> Errorf(<<Lit("empty data")>>), data |-> <<>>]
        ELSE IF padding = 0 \/ padding > BlockSize
        THEN [err |-> Errorf(<<Lit("invalid padding value: "), Num(<<padding>>, "plaintext")>>),
              data |-> <<>>]
        ELSE IF padding > n
        THEN [err |-> Errorf(<<Lit("padding "), Num(<<padding>>, "plaintext"),
                               Lit(" exceeds data length "), Num(<<n>>, "input")>>),
              data |-> <<>>]
        ELSE IF wrong # {}
        THEN [err |-> Errorf(<<Lit("invalid padding byte at position "),
                               Num(<<(CHOOSE i \in wrong : \A j \in wrong : i <= j) - 1>>,
                                   "plaintext")>>),
              data |-> <<>>]
        ELSE [err |-> Nil, data |-> SubSeq(data, 1, n - padding)]

\* the parse with the tenant ID compared as a prefix of the trailer
ParsePlaintextPrefix(c, plaintext) ==
    LET msgLen == BigEndianUint32(SubSeq(plaintext, 17, 20))
        end32 == Add32(msgLen, 20)
        end == end32.lo
        corpID == SubSeq(plaintext, end + 1, Len(plaintext))
    IN  IF Len(plaintext) < 20
        THEN [outcome |-> "error", stage |-> "tooShort", msg |-> <<>>,
              err |-> Errorf(<<Lit("plaintext too short")>>)]
        ELSE IF Less32(Uint32(Len(plaintext)), end32)
        THEN [outcome |-> "error", stage |-> "lengthMismatch", msg |-> <<>>,
              err |-> Errorf(<<Lit("invalid msg length")>>)]
        ELSE IF end < 20
        THEN [outcome |-> "panic", stage |-> "slice", msg |-> <<>>, err |-> Nil]
        ELSE IF Len(corpID) < Len(c.corpID) \/ SubSeq(corpID, 1, Len(c.corpID)) # c.corpID
        THEN [outcome |-> "error", stage |-> "tenantMismatch", msg |-> <<>>,
              err |-> Errorf(<<Lit("corp_id mismatch")>>)]
        ELSE [outcome |-> "ok", stage |-> "done", msg |-> SubSeq(plaintext, 21, end), err |-> Nil]

\* The parse of the unpadded plaintext, Decrypt steps 5 and 6:
\* random(16) + msgLen(4, big-endian) + msg + corpID.
\* outcome "panic": the slice expression plaintext[20 : 20+msgLen] is out of
\* range (its high bound, computed in uint32, is below its low bound).
ParsePlaintext(c, plaintext) ==
    LET msgLen == BigEndianUint32(SubSeq(plaintext, 17, 20))
        end32 == Add32(msgLen, 20)
        end == end32.lo
        corpID == SubSeq(plaintext, end + 1, Len(plaintext))
    IN  IF Len(plaintext) < 20
        THEN [outcome |-> "error", stage |-> "tooShort", msg |-> <<>>,
              err |-> Errorf(<<Lit("plaintext too short: "), Num(<<Len(plaintext)>>, "plaintext"),
                               Lit(" bytes")>>)]
        ELSE IF Less32(Uint32(Len(plaintext)), end32)
        THEN [outcome |-> "error", stage |-> "lengthMismatch", msg |-> <<>>,
              err |-> Errorf(<<Lit("invalid msg length: "), Num(PutUint32(msgLen), "plaintext"),
                               Lit(", plaintext length: "), Num(<<Len(plaintext)>>, "plaintext")>>)]
        ELSE IF end < 20
        THEN [outcome |-> "panic", stage |-> "slice", msg |-> <<>>, err |-> Nil]
        ELSE IF corpID # c.corpID
        THEN [outcome |-> "error", stage |-> "tenantMismatch", msg |-> <<>>,
              err |-> Errorf(<<Lit("corp_id mismatch: got "), Str(corpID, "plaintext"),
                               Lit(", want "), Str(c.corpID, "config")>>)]
        ELSE [outcome |-> "ok", stage |-> "done", msg |-> SubSeq(plaintext, 21, end), err |-> Nil]

\* cryptoImpl.Decrypt from step 5 on, u being what pkcs7Unpad returned
DecryptUnpadded(c, u) ==
    IF ~u.err.nil
    THEN [outcome |-> "error", stage |-> "padding", msg |-> <<>>,
          err |-> Wrap("pkcs7 unpad: ", u.err)]
    ELSE ParsePlaintext(c, u.data)

\* cryptoImpl.Decrypt from step 2 on, d being what DecodeString returned
DecryptDecoded(c, d) ==
    IF ~d.err.nil
    THEN [outcome |-> "error", stage |-> "decode", msg |-> <<>>,
          err |-> Wrap("base64 decode: ", d.err)]
    ELSE IF Len(d.bytes) = 0 \/ Len(d.bytes) % BlockSize # 0
    THEN [outcome |-> "error", stage |-> "alignment", msg |-> <<>>,
          err |-> Errorf(<<Lit("ciphertext length "), Num(<<Len(d.bytes)>>, "input"),
                           Lit(" is not a multiple of block size "),
                           Num(<<BlockSize>>, "code")>>)]
    ELSE DecryptUnpadded(c,
             pkcs7Unpad(CBCDecrypt(c.aesKey, SubSeq(c.aesKey, 1, BlockSize), d.bytes)))

\* cryptoImpl.Decrypt
Decrypt(c, encrypted) == DecryptDecoded(c, DecodeString(encrypted))

\* The payload Encrypt assembles before padding
Payload(randomBytes, msgLen, msg, corpID) == randomBytes \o msgLen \o msg \o corpID

\* Encrypt steps 2 to 4 on an assembled payload: pad, AES-CBC with
\* IV = aesKey[:16], base64
Seal(c, buf) ==
    EncodeToString(CBCEncrypt(c.aesKey, SubSeq(c.aesKey, 1, BlockSize),
                              pkcs7Pad(buf, BlockSize)))

\* cryptoImpl.Encrypt; randomBytes is what rand.Reader delivered
Encrypt(c, plaintext, randomBytes) ==
    Seal(c, Payload(randomBytes, PutUint32(Uint32(Len(plaintext))), plaintext, c.corpID))

----------------------------------------------------------------------------
(* State *)

VARIABLES
    crypto,     \* the cryptoImpl built at startup: token, aesKey, corpID
    body,       \* cipher run: the message body handed to Encrypt
    sealed,     \* cipher run: the base64 ciphertext string
    stage,      \* cipher run: "start", "encrypted", "tampered", "forged",
                \* "malformed", "decrypted"
    how,        \* cipher run: how sealed was produced
    result,     \* cipher run: what Decrypt returned
    sigq,       \* signature run: the query and the one component replaced
    sigres,     \* signature run: what VerifySignature returned
    conns,      \* the HTTP requests in progress, one record per request
    pad,        \* padding run: the buffer handed to pkcs7Unpad and what it returned
    send        \* send run: one call of AIClient.SendMessage

vars == <<crypto, body, sealed, stage, how, result, sigq, sigres, conns, pad, send>>

----------------------------------------------------------------------------
(* Configuration values and inputs *)

\* largest message body length of a cipher run
MaxBodyLen == 4
\* number of distinct 16-byte draws of rand.Reader
NumRandoms == 2

\* wework.token
Token == <<116, 111, 107>>

\* wework.encoding_aes_key: two 43-character key strings
EncodingAESKey(k) == [i \in 1..43 |-> 97 + ((i * (5 + 2 * k)) % 26)]

\* wework.corp_id: "wwcorpid0001", and an 11-byte one, "wwcorpid002"
CorpID(k) ==
    IF k = 1 THEN <<119, 119, 99, 111, 114, 112, 105, 100, 48, 48, 48, 49>>
    ELSE <<119, 119, 99, 111, 114, 112, 105, 100, 48, 48, 50>>

\* the cipher instances: valid key and tenant pairs
Ciphers == {NewCrypto(Token, EncodingAESKey(k), CorpID(k)).crypto : k \in 1..2}

\* message bodies of every length 0..MaxBodyLen
BodyOf(n) == [i \in 1..n |-> 48 + ((7 * i + n) % 10)]
Bodies == {Seq2Tuple(BodyOf(n)) : n \in 0..MaxBodyLen}

\* what rand.Reader may deliver
RandomBytes(r) == Seq2Tuple([i \in 1..16 |-> (r * 37 + i * 11) % 256])
Randoms == {RandomBytes(r) : r \in 1..NumRandoms}

\* values of the 4-byte length field a sender may write for body p
LenFields(p) ==
    { PutUint32(Uint32(Len(p))), PutUint32(Uint32(Len(p) + 1)), PutUint32(Uint32(0)),
      <<0, 0, 1, 0>>, <<0, 1, 0, 0>>, <<128, 0, 0, 0>>,
      <<255, 255, 255, 236>>, <<255, 255, 255, 240>>, <<255, 255, 255, 255>> }

\* trailers a sender may write after the body: the tenant ID, a proper
\* prefix of it, an extension of it, nothing, and the word "unmarshal"
Trailers(c) ==
    { c.corpID, SubSeq(c.corpID, 1, Len(c.corpID) - 1), c.corpID \o <<48>>, <<>>,
      <<117, 110, 109, 97, 114, 115, 104, 97, 108>> }

NoHow == [kind |-> "none", random |-> <<>>, byte |-> 0, bit |-> 0,
          lenField |-> <<>>, trailer |-> <<>>]
NoResult == [outcome |-> "none", stage |-> "none", msg |-> <<>>, err |-> Nil]

\* ciphertext bytes with bit b of byte k inverted
FlipBit(bytes, k, b) == [bytes EXCEPT ![k] = Xor(@, 2 ^ b)]

----------------------------------------------------------------------------
(* Cipher runs: Encrypt, an optional change of the ciphertext in transit,  *)
(* Decrypt.                                                                *)

CipherIdle ==
    /\ body = <<>>
    /\ sealed = <<>>
    /\ stage = "off"
    /\ how = NoHow
    /\ result = NoResult

SigIdle ==
    /\ sigq = <<>>
    /\ sigres = <<>>

ConnsIdle == conns = <<>>

PadIdle == pad = <<>>

SendIdle == send = <<>>

InitCipher ==
    /\ crypto \in Ciphers
    /\ body \in Bodies
    /\ sealed = <<>>
    /\ stage = "start"
    /\ how = NoHow
    /\ result = NoResult
    /\ SigIdle
    /\ ConnsIdle
    /\ PadIdle
    /\ SendIdle

\* cryptoImpl.Encrypt(body), rand.Reader delivering any of Randoms
EncryptStep ==
    /\ stage = "start"
    /\ \E r \in Randoms :
          /\ sealed' = Encrypt(crypto, body, r)
          /\ how' = [NoHow EXCEPT !.kind = "encrypt", !.random = r]
    /\ stage' = "encrypted"
    /\ UNCHANGED <<crypto, body, result, sigq, sigres, conns, pad, send>>

\* a sender holding the key seals a payload with any length field and trailer
ForgeStep ==
    /\ stage = "start"
    /\ \E r \in Randoms, l \in LenFields(body), t \in Trailers(crypto) :
          /\ sealed' = Seal(crypto, Payload(r, l, body, t))
          /\ how' = [NoHow EXCEPT !.kind = "forge", !.random = r,
                                  !.lenField = l, !.trailer = t]
    /\ stage' = "forged"
    /\ UNCHANGED <<crypto, body, result, sigq, sigres, conns, pad, send>>

\* one bit of the ciphertext bytes is inverted in transit
TamperStep ==
    /\ stage = "encrypted"
    /\ LET bytes == DecodeString(sealed).bytes
       IN  \E k \in 1..Len(bytes), b \in 0..7 :
              /\ sealed' = EncodeToString(FlipBit(bytes, k, b))
              /\ how' = [how EXCEPT !.kind = "flip", !.byte = k, !.bit = b]
    /\ stage' = "tampered"
    /\ UNCHANGED <<crypto, body, result, sigq, sigres, conns, pad, send>>

\* strings that are not the output of Encrypt: s with its first or its last
\* character replaced by '!', the empty string, s decoded, cut by one byte
\* and encoded again, the same with its first character replaced, blocks
\* sealed without padding, and a sealed payload of fewer than 20 bytes
Malformed(c, s, r) ==
    LET bytes == DecodeString(s).bytes
        cut == EncodeToString(SubSeq(bytes, 1, Len(bytes) - 1))
    IN  { [s EXCEPT ![1] = 33], [s EXCEPT ![Len(s)] = 33], <<>>, cut,
          [cut EXCEPT ![1] = 33],
          EncodeToString(CBCEncrypt(c.aesKey, SubSeq(c.aesKey, 1, BlockSize),
                                    r \o [i \in 1..BlockSize |-> 32])),
          Seal(c, r), Seal(c, SubSeq(r, 1, 3)), Seal(c, <<>>) }

\* anyone sends a string that is not the output of Encrypt
MalformStep ==
    /\ stage = "start"
    /\ \E r \in Randoms :
          /\ sealed' \in Malformed(crypto, Encrypt(crypto, body, r), r)
          /\ how' = [NoHow EXCEPT !.kind = "malform", !.random = r]
    /\ stage' = "malformed"
    /\ UNCHANGED <<crypto, body, result, sigq, sigres, conns, pad, send>>

\* cryptoImpl.Decrypt(sealed)
DecryptStep ==
    /\ stage \in {"encrypted", "tampered", "forged", "malformed"}
    /\ result' = Decrypt(crypto, sealed)
    /\ stage' = "decrypted"
    /\ UNCHANGED <<crypto, body, sealed, how, sigq, sigres, conns, pad, send>>

NextCipher == EncryptStep \/ ForgeStep \/ TamperStep \/ MalformStep \/ DecryptStep

SpecCipher == InitCipher /\ [][NextCipher]_vars

----------------------------------------------------------------------------
(* Signature runs: VerifySignature on a query the platform signed, then on *)
(* the same query with exactly one of its four strings replaced.           *)

\* longest timestamp of a signature run; nonces are up to one longer
MaxStrLen == 2

\* the strings of the digits '1' and '2' of length 0..n
DigitStrings(n) == UNION {[1..k -> {49, 50}] : k \in 0..n}

\* the signature the platform sends: SHA1 hex of the sorted concatenation
PlatformSignature(token, timestamp, nonce, msgEncrypt) ==
    Sha1Hex(Join(SortStrings(<<token, timestamp, nonce, msgEncrypt>>)))

\* two ciphertext fields
SigCiphertexts == <<<<65, 81, 73, 68>>, <<65, 81, 73, 69>>>>

\* the strings that may replace component field of query q
Replacements(q, field) ==
    (CASE field = "signature" ->
              {UpperHex(q.signature), EmptySignature,
               PlatformSignature(Token, q.timestamp \o <<49>>, q.nonce, q.msgEncrypt)}
       [] field = "timestamp" -> DigitStrings(MaxStrLen)
       [] field = "nonce" -> DigitStrings(MaxStrLen + 1)
       [] field = "msgEncrypt" -> {SigCiphertexts[2]}) \ {q[field]}

SigQueries ==
    {[signature |-> PlatformSignature(Token, t, n, SigCiphertexts[1]),
      timestamp |-> t, nonce |-> n, msgEncrypt |-> SigCiphertexts[1]] :
        t \in DigitStrings(MaxStrLen), n \in DigitStrings(MaxStrLen + 1)}

SigFields == {"signature", "timestamp", "nonce", "msgEncrypt"}

\* the query q with its component field replaced by repl
Replaced(q, field, repl) == [q EXCEPT ![field] = repl]

InitSig ==
    /\ crypto = NewCrypto(Token, EncodingAESKey(1), CorpID(1)).crypto
    /\ \E q \in SigQueries, f \in SigFields :
          \E r \in Replacements(q, f) :
              sigq = [query |-> q, field |-> f, repl |-> r]
    /\ sigres = [done |-> 0, original |-> FALSE, changed |-> FALSE]
    /\ CipherIdle
    /\ ConnsIdle
    /\ PadIdle
    /\ SendIdle

\* VerifySignature on the query as signed
VerifyOriginal ==
    /\ sigres.done = 0
    /\ sigres' = [sigres EXCEPT
                     !.done = 1,
                     !.original = VerifySignature(crypto, sigq.query.signature,
                                                  sigq.query.timestamp, sigq.query.nonce,
                                                  sigq.query.msgEncrypt)]
    /\ UNCHANGED <<crypto, body, sealed, stage, how, result, sigq, conns, pad, send>>

\* VerifySignature on the query with one component replaced
VerifyChanged ==
    /\ sigres.done = 1
    /\ LET q == Replaced(sigq.query, sigq.field, sigq.repl)
       IN  sigres' = [sigres EXCEPT
                         !.done = 2,
                         !.changed = VerifySignature(crypto, q.signature, q.timestamp,
                                                     q.nonce, q.msgEncrypt)]
    /\ UNCHANGED <<crypto, body, sealed, stage, how, result, sigq, conns, pad, send>>

NextSig == VerifyOriginal \/ VerifyChanged

SpecSig == InitSig /\ [][NextSig]_vars

----------------------------------------------------------------------------
(* Padding runs: pkcs7Unpad on a buffer.                                   *)

\* longest buffer built of any bytes of PadBytes, and longest stretch of
\* bytes before the padding of a longer buffer
MaxBufLen == 3

\* byte values at and around the limits of a padding byte
PadBytes == {0, 1, 2, 3, BlockSize, BlockSize + 1, 255}

\* every buffer of n bytes of PadBytes
BuffersOfLen(n) == [1..n -> PadBytes]

\* m bytes, then k bytes of value p
PaddedRun(m, p, k) == [i \in 1..(m + k) |-> IF i <= m THEN 7 ELSE p]

\* runs of BlockSize - 1, BlockSize and BlockSize + 1 padding bytes of the
\* values around BlockSize, whole or with one byte replaced
LongBuffers ==
    LET runs == { PaddedRun(m, p, k) : m \in 0..MaxBufLen,
                                       p \in {BlockSize - 1, BlockSize, BlockSize + 1},
                                       k \in {BlockSize - 1, BlockSize, BlockSize + 1} }
    IN  runs \cup { [b EXCEPT ![i] = 9] : b \in runs, i \in {1, 2, BlockSize - 1} }

PadBuffers ==
    { Seq2Tuple(b) : b \in UNION { BuffersOfLen(n) : n \in 1..MaxBufLen } \cup LongBuffers }

NoUnpadded == [called |-> FALSE, err |-> Nil, data |-> <<>>]

InitPad ==
    /\ crypto = NewCrypto(Token, EncodingAESKey(1), CorpID(1)).crypto
    /\ \E b \in PadBuffers : pad = [buf |-> b, out |-> NoUnpadded]
    /\ send = <<>>
    /\ CipherIdle
    /\ SigIdle
    /\ ConnsIdle

\* pkcs7Unpad(buf)
UnpadStep ==
    /\ ~pad.out.called
    /\ pad' = [pad EXCEPT !.out = [called |-> TRUE, err |-> pkcs7Unpad(pad.buf).err,
                                   data |-> pkcs7Unpad(pad.buf).data]]
    /\ UNCHANGED <<crypto, body, sealed, stage, how, result, sigq, sigres, conns, send>>

NextPad == UnpadStep

SpecPad == InitPad /\ [][NextPad]_vars

----------------------------------------------------------------------------
(* encoding/xml, for the flat documents the platform sends:                *)
(* <xml><Name>text</Name>...</xml>.  A document that does not open with    *)
(* <xml> and close with </xml> does not unmarshal; an element that is      *)
(* absent leaves its field empty.                                          *)

\* the least i with s[i..] starting with sub, or 0
IndexOf(s, sub) ==
    LET hits == {i \in 1..(Len(s) - Len(sub) + 1) : SubSeq(s, i, i + Len(sub) - 1) = sub}
    IN  IF hits = {} THEN 0 ELSE CHOOSE i \in hits : \A j \in hits : i <= j

OpenTag(name) == <<60>> \o name \o <<62>>
CloseTag(name) == <<60, 47>> \o name \o <<62>>
XmlRoot == <<120, 109, 108>>

\* <name>text</name>
XmlElement(name, text) == OpenTag(name) \o text \o CloseTag(name)

XmlWellFormed(data) ==
    /\ Len(data) >= Len(OpenTag(XmlRoot)) + Len(CloseTag(XmlRoot))
    /\ SubSeq(data, 1, Len(OpenTag(XmlRoot))) = OpenTag(XmlRoot)
    /\ SubSeq(data, Len(data) - Len(CloseTag(XmlRoot)) + 1, Len(data)) = CloseTag(XmlRoot)

\* the character data of element name of document data
XmlText(data, name) ==
    LET o == IndexOf(data, OpenTag(name))
        c == IndexOf(data, CloseTag(name))
    IN  IF o > 0 /\ c >= o + Len(OpenTag(name))
        THEN SubSeq(data, o + Len(OpenTag(name)), c - 1)
        ELSE <<>>

\* the error xml.Unmarshal returns for a document that is not well-formed
XmlSyntaxError == Errorf(<<Lit("XML syntax error")>>)

NameToUserName == <<84, 111, 85, 115, 101, 114, 78, 97, 109, 101>>
NameAgentID == <<65, 103, 101, 110, 116, 73, 68>>
NameEncrypt == <<69, 110, 99, 114, 121, 112, 116>>
NameFromUserName == <<70, 114, 111, 109, 85, 115, 101, 114, 78, 97, 109, 101>>
NameMsgType == <<77, 115, 103, 84, 121, 112, 101>>
NameContent == <<67, 111, 110, 116, 101, 110, 116>>
NameMsgId == <<77, 115, 103, 73, 100>>

\* xml.Unmarshal(body, &encBody), EncryptedBody
UnmarshalEncryptedBody(data) ==
    IF XmlWellFormed(data)
    THEN [err |-> Nil,
          v |-> [ToUserName |-> XmlText(data, NameToUserName),
                 AgentID |-> XmlText(data, NameAgentID),
                 Encrypt |-> XmlText(data, NameEncrypt)]]
    ELSE [err |-> XmlSyntaxError,
          v |-> [ToUserName |-> <<>>, AgentID |-> <<>>, Encrypt |-> <<>>]]

NoMessage == [ToUserName |-> <<>>, FromUserName |-> <<>>, MsgType |-> <<>>,
              Content |-> <<>>, MsgID |-> <<>>]

\* xml.Unmarshal(plaintext, &msg), Message
UnmarshalMessage(data) ==
    IF XmlWellFormed(data)
    THEN [err |-> Nil,
          v |-> [ToUserName |-> XmlText(data, NameToUserName),
                 FromUserName |-> XmlText(data, NameFromUserName),
                 MsgType |-> XmlText(data, NameMsgType),
                 Content |-> XmlText(data, NameContent),
                 MsgID |-> XmlText(data, NameMsgId)]]
    ELSE [err |-> XmlSyntaxError, v |-> NoMessage]

MsgTypeText == <<116, 101, 120, 116>>
MsgTypeImage == <<105, 109, 97, 103, 101>>

----------------------------------------------------------------------------
(* internal/wework: serviceImpl *)

ErrInvalidSignature ==
    [nil |-> FALSE, text |-> <<Lit("invalid signature")>>, is |-> {"ErrInvalidSignature"}]

\* errors.Is(err, target) for a sentinel target
ErrorsIs(err, target) == target \in err.is

\* a record written through the slog.Logger: level, message, key/value pairs;
\* a value is a sequence of text fragments
LogRecord(level, msg, attrs) == [level |-> level, msg |-> msg, attrs |-> attrs]
Attr(key, value) == [key |-> key, value |-> value]

\* serviceImpl.VerifyURL from the return of crypto.Decrypt on
VerifyURLDecrypted(d) ==
    IF d.outcome = "panic"
    THEN [outcome |-> "panic", plaintext |-> <<>>, err |-> Nil,
          calls |-> <<"VerifySignature", "Decrypt">>]
    ELSE IF ~d.err.nil
    THEN [outcome |-> "return", plaintext |-> <<>>,
          err |-> Wrap("decrypt echostr: ", d.err),
          calls |-> <<"VerifySignature", "Decrypt">>]
    ELSE [outcome |-> "return", plaintext |-> Seq2Tuple(d.msg), err |-> Nil,
          calls |-> <<"VerifySignature", "Decrypt">>]

\* VerifyURL with its two steps in the other order: Decrypt first
VerifyURLDecryptFirst(c, q) ==
    IF ~VerifySignature(c, q.MsgSignature, q.Timestamp, q.Nonce, q.Echostr)
    THEN [outcome |-> "return", plaintext |-> <<>>, err |-> ErrInvalidSignature,
          calls |-> <<"Decrypt", "VerifySignature">>]
    ELSE VerifyURLDecrypted(Decrypt(c, q.Echostr))

\* serviceImpl.VerifyURL: outcome "return" with (plaintext, err), or "panic";
\* calls lists the Crypto methods invoked, in order
VerifyURL(c, q) ==
    IF ~VerifySignature(c, q.MsgSignature, q.Timestamp, q.Nonce, q.Echostr)
    THEN [outcome |-> "return", plaintext |-> <<>>, err |-> ErrInvalidSignature,
          calls |-> <<"VerifySignature">>]
    ELSE VerifyURLDecrypted(Decrypt(c, q.Echostr))

\* containsMention without its test
containsMentionAlways(content) == TRUE

\* containsMention
containsMention(content) == Contains(content, <<64>>)

\* what HandleCallback hands back: outcome "return" with err, or "panic";
\* calls lists the Crypto methods invoked, logs the records written, spawn
\* tells whether "go s.forwardToAI(...)" was executed, and msg is its argument
Returned(outcome, err, calls, logs, spawn, msg) ==
    [outcome |-> outcome, err |-> err, calls |-> calls, logs |-> logs,
     spawn |-> spawn, msg |-> msg]

\* serviceImpl.HandleCallback, steps 5 and 6, m being the message unmarshalled
HandleCallbackMessage(m) ==
    IF ~m.err.nil
    THEN Returned("return", Wrap("unmarshal message: ", m.err),
                  <<"VerifySignature", "Decrypt">>, <<>>, FALSE, NoMessage)
    ELSE IF m.v.MsgType # MsgTypeText
    THEN Returned("return", Nil, <<"VerifySignature", "Decrypt">>, <<>>, FALSE, NoMessage)
    ELSE IF ~containsMention(m.v.Content)
    THEN Returned("return", Nil, <<"VerifySignature", "Decrypt">>, <<>>, FALSE, NoMessage)
    ELSE Returned("return", Nil, <<"VerifySignature", "Decrypt">>, <<>>, TRUE, m.v)

\* serviceImpl.HandleCallback, step 4 on, d being what crypto.Decrypt returned
HandleCallbackDecrypted(d) ==
    IF d.outcome = "panic"
    THEN Returned("panic", Nil, <<"VerifySignature", "Decrypt">>, <<>>, FALSE, NoMessage)
    ELSE IF ~d.err.nil
    THEN Returned("return", Wrap("decrypt message: ", d.err),
                  <<"VerifySignature", "Decrypt">>,
                  <<LogRecord("ERROR", "failed to decrypt message",
                              <<Attr("error", d.err.text)>>)>>,
                  FALSE, NoMessage)
    ELSE HandleCallbackMessage(UnmarshalMessage(d.msg))

\* HandleCallback verifying the signature before it looks at the parse error
HandleCallbackVerifyFirst(c, q, enc) ==
    IF ~VerifySignature(c, q.MsgSignature, q.Timestamp, q.Nonce, enc.v.Encrypt)
    THEN Returned("return", ErrInvalidSignature, <<"VerifySignature">>, <<>>,
                  FALSE, NoMessage)
    ELSE IF ~enc.err.nil
    THEN Returned("return", Wrap("unmarshal encrypted body: ", enc.err),
                  <<"VerifySignature">>, <<>>, FALSE, NoMessage)
    ELSE HandleCallbackDecrypted(Decrypt(c, enc.v.Encrypt))

\* HandleCallback decrypting before it verifies the signature
HandleCallbackDecryptFirst(c, q, enc) ==
    IF ~enc.err.nil
    THEN Returned("return", Wrap("unmarshal encrypted body: ", enc.err), <<>>, <<>>,
                  FALSE, NoMessage)
    ELSE IF ~VerifySignature(c, q.MsgSignature, q.Timestamp, q.Nonce, enc.v.Encrypt)
    THEN Returned("return", ErrInvalidSignature, <<"Decrypt", "VerifySignature">>,
                  <<>>, FALSE, NoMessage)
    ELSE HandleCallbackDecrypted(Decrypt(c, enc.v.Encrypt))

\* serviceImpl.HandleCallback, step 2 on, enc being the envelope unmarshalled
HandleCallbackEnvelope(c, q, enc) ==
    IF ~enc.err.nil
    THEN Returned("return", Wrap("unmarshal encrypted body: ", enc.err), <<>>, <<>>,
                  FALSE, NoMessage)
    ELSE IF ~VerifySignature(c, q.MsgSignature, q.Timestamp, q.Nonce, enc.v.Encrypt)
    THEN Returned("return", ErrInvalidSignature, <<"VerifySignature">>,
                  <<LogRecord("WARN", "signature verification failed",
                              <<Attr("timestamp", <<Str(q.Timestamp, "request")>>),
                                Attr("nonce", <<Str(q.Nonce, "request")>>)>>)>>,
                  FALSE, NoMessage)
    ELSE HandleCallbackDecrypted(Decrypt(c, enc.v.Encrypt))

\* serviceImpl.HandleCallback
HandleCallback(c, q, data) == HandleCallbackEnvelope(c, q, UnmarshalEncryptedBody(data))

SourceWework == <<119, 101, 119, 111, 114, 107>>

\* a ChatRequest with the addressee in place of the sender
ChatRequestToUser(msg) ==
    [UserID |-> msg.ToUserName, Content |-> msg.Content, Source |-> SourceWework,
     GroupID |-> <<>>]

\* the ai.ChatRequest forwardToAI builds
ChatRequest(msg) ==
    [UserID |-> msg.FromUserName, Content |-> msg.Content, Source |-> SourceWework,
     GroupID |-> <<>>]

NoChatRequest == [UserID |-> <<>>, Content |-> <<>>, Source |-> <<>>, GroupID |-> <<>>]

\* the error the collaborator's SendMessage may return
SendError == Errorf(<<Lit("send message failed")>>)

----------------------------------------------------------------------------
(* Requests the platform, or anyone else, may send *)

\* number of requests taken up in one run
MaxRequests == 2

\* the cryptoImpl NewApp builds from the configuration
AppCrypto == NewCrypto(Token, EncodingAESKey(1), CorpID(1)).crypto

\* a sender with the same key configured for another tenant
OtherTenantCrypto == [AppCrypto EXCEPT !.corpID = CorpID(2)]

ReqTimestamp == <<49, 52>>
ReqNonce == <<50, 54>>
\* ReqNonce with one character altered
AlteredNonce == <<50, 55>>

\* a query whose signature is the platform's over (timestamp, nonce, field)
SignedQuery(field, echostr) ==
    [MsgSignature |-> PlatformSignature(Token, ReqTimestamp, ReqNonce, field),
     Timestamp |-> ReqTimestamp, Nonce |-> ReqNonce, Echostr |-> echostr]

\* the message XML the platform composes
MessageXML(from, type, content, id) ==
    OpenTag(XmlRoot) \o XmlElement(NameFromUserName, from) \o XmlElement(NameMsgType, type)
        \o XmlElement(NameContent, content) \o XmlElement(NameMsgId, id) \o CloseTag(XmlRoot)

\* the envelope XML of a POST
Envelope(encrypt) ==
    OpenTag(XmlRoot) \o XmlElement(NameToUserName, CorpID(1))
        \o XmlElement(NameEncrypt, encrypt) \o CloseTag(XmlRoot)

UserU1 == <<117, 49>>
ContentMention == <<64, 97, 32, 104, 105>>
ContentHello == <<104, 101, 108, 108, 111>>
EchoPlain == <<49, 50, 51, 52, 53, 54, 55, 56, 57, 48>>
UnmarshalWord == <<117, 110, 109, 97, 114, 115, 104, 97, 108>>

DocMention == MessageXML(UserU1, MsgTypeText, ContentMention, <<55>>)
DocHello == MessageXML(UserU1, MsgTypeText, ContentHello, <<56>>)
DocImage == MessageXML(UserU1, MsgTypeImage, ContentMention, <<57>>)
DocNotXml == ContentHello

\* ciphertext fields on which Decrypt fails, one per stage, and one on which
\* its slice expression is out of range
CtNotBase64 == <<33, 33, 33, 33>>
CtMisaligned == EncodeToString(<<1, 2, 3>>)
CtBadPadding ==
    EncodeToString(CBCEncrypt(AppCrypto.aesKey, SubSeq(AppCrypto.aesKey, 1, BlockSize),
                              [i \in 1..BlockSize |-> 32]))
CtTooShort == Seal(AppCrypto, <<1, 2, 3>>)
CtLengthMismatch ==
    Seal(AppCrypto, Payload(RandomBytes(1), <<0, 0, 1, 0>>, DocHello, AppCrypto.corpID))
CtOtherTenant == Encrypt(OtherTenantCrypto, DocHello, RandomBytes(1))
CtUnmarshalTenant ==
    Seal(AppCrypto, Payload(RandomBytes(1), PutUint32(Uint32(Len(DocHello))), DocHello,
                            UnmarshalWord))
CtWrappedLength ==
    Seal(AppCrypto, Payload(RandomBytes(1), <<255, 255, 255, 240>>, DocHello,
                            AppCrypto.corpID))

FailingCiphertexts ==
    {CtNotBase64, CtMisaligned, CtBadPadding, CtTooShort, CtLengthMismatch,
     CtOtherTenant, CtUnmarshalTenant}

Request(method, q, data, readFails) ==
    [method |-> method, q |-> q, body |-> data, readFails |-> readFails]

\* GET /callback?msg_signature=&timestamp=&nonce=&echostr=
GetRequests ==
    LET good == Encrypt(AppCrypto, EchoPlain, RandomBytes(1))
    IN  { Request("GET", SignedQuery(good, good), <<>>, FALSE),
          Request("GET", [SignedQuery(good, good) EXCEPT !.Nonce = AlteredNonce], <<>>, FALSE),
          Request("GET", [SignedQuery(good, good) EXCEPT
                              !.MsgSignature = UpperHex(@)], <<>>, FALSE),
          Request("GET", SignedQuery(CtOtherTenant, CtOtherTenant), <<>>, FALSE),
          Request("GET", SignedQuery(CtNotBase64, CtNotBase64), <<>>, FALSE),
          Request("GET", SignedQuery(CtWrappedLength, CtWrappedLength), <<>>, FALSE) }

\* POST /callback?msg_signature=&timestamp=&nonce= with an XML body
PostRequests ==
    LET post(ct) == Request("POST", SignedQuery(ct, <<>>), Envelope(ct), FALSE)
        mention == Encrypt(AppCrypto, DocMention, RandomBytes(1))
    IN  { post(mention),
          post(Encrypt(AppCrypto, DocHello, RandomBytes(1))),
          post(Encrypt(AppCrypto, DocImage, RandomBytes(1))),
          post(Encrypt(AppCrypto, DocNotXml, RandomBytes(1))),
          post(CtWrappedLength),
          [post(mention) EXCEPT !.q.Nonce = AlteredNonce],
          [post(mention) EXCEPT !.body = DocNotXml],
          [post(mention) EXCEPT !.readFails = TRUE] }
        \cup {post(ct) : ct \in FailingCiphertexts}

\* any other method
OtherRequests == {Request("PUT", SignedQuery(<<>>, <<>>), <<>>, FALSE)}

Requests == GetRequests \cup PostRequests \cup OtherRequests

----------------------------------------------------------------------------
(* adapter/http: CallbackHandler, and the goroutine of forwardToAI *)

BodyForbidden == <<102, 111, 114, 98, 105, 100, 100, 101, 110, 10>>
BodyBadRequest == <<98, 97, 100, 32, 114, 101, 113, 117, 101, 115, 116, 10>>
BodyInternalError == <<105, 110, 116, 101, 114, 110, 97, 108, 32, 115, 101, 114, 118, 101, 114, 32, 101, 114, 114, 111, 114, 10>>
BodyMethodNotAllowed == <<109, 101, 116, 104, 111, 100, 32, 110, 111, 116, 32, 97, 108, 108, 111, 119, 101, 100, 10>>
BodySuccess == <<115, 117, 99, 99, 101, 115, 115>>

\* strings.Contains(err.Error(), "unmarshal"): the word is in a literal of a
\* format string, or in the bytes of a %s operand
ErrorTextContainsUnmarshal(err) ==
    \E k \in 1..Len(err.text) :
        \/ /\ err.text[k].kind = "lit"
           /\ err.text[k].lit \in {"unmarshal encrypted body: ", "unmarshal message: "}
        \/ /\ err.text[k].kind = "str"
           /\ Contains(err.text[k].val, UnmarshalWord)

\* a request as ServeHTTP is entered with it, on a goroutine of its own
NewConn(r) ==
    [req |-> r, pc |-> "serving", err |-> Nil, status |-> 0, respBody |-> <<>>,
     calls |-> <<>>, logs |-> <<>>, fwd |-> "none", msg |-> NoMessage,
     sends |-> 0, sent |-> NoChatRequest]

\* a response that tells the caller of a failed forward
RespondForwardAware(conn, code, text, logs) ==
    [conn EXCEPT !.pc = "done", !.status = IF conn.fwd = "failed" THEN 502 ELSE code,
                 !.respBody = text, !.logs = @ \o logs]

\* http.Error(w, text, code), or WriteHeader and Write
Respond(conn, code, text, logs) ==
    [conn EXCEPT !.pc = "done", !.status = code, !.respBody = text,
                 !.logs = @ \o logs]

\* the handler panicked: net/http recovers, and no response is written
Abort(conn, calls) == [conn EXCEPT !.pc = "aborted", !.calls = @ \o calls]

InitConns ==
    /\ crypto = AppCrypto
    /\ conns = <<>>
    /\ CipherIdle
    /\ SigIdle
    /\ PadIdle
    /\ SendIdle

\* CallbackHandler.ServeHTTP, default case, for a request that arrives
MethodNotAllowed ==
    /\ Len(conns) < MaxRequests
    /\ \E r \in Requests :
          /\ r.method \notin {"GET", "POST"}
          /\ conns' = Append(conns, Respond(NewConn(r), 405, BodyMethodNotAllowed, <<>>))
    /\ UNCHANGED <<crypto, body, sealed, stage, how, result, sigq, sigres, pad, send>>

\* handleVerifyURL answering every error as it answers ErrInvalidSignature
VerifyURLResponseForbidden(conn, r) ==
    IF r.outcome = "panic" THEN Abort(conn, r.calls)
    ELSE IF ~r.err.nil
    THEN Respond([conn EXCEPT !.calls = r.calls, !.err = r.err], 403, BodyForbidden, <<>>)
    ELSE Respond([conn EXCEPT !.calls = r.calls, !.err = r.err], 200, r.plaintext, <<>>)

\* CallbackHandler.handleVerifyURL from the return of svc.VerifyURL on
VerifyURLResponse(conn, r) ==
    IF r.outcome = "panic" THEN Abort(conn, r.calls)
    ELSE IF ~r.err.nil /\ ErrorsIs(r.err, "ErrInvalidSignature")
    THEN Respond([conn EXCEPT !.calls = r.calls, !.err = r.err], 403, BodyForbidden,
             <<LogRecord("WARN", "URL verification signature failed",
                         <<Attr("timestamp", <<Str(conn.req.q.Timestamp, "request")>>),
                           Attr("nonce", <<Str(conn.req.q.Nonce, "request")>>)>>)>>)
    ELSE IF ~r.err.nil
    THEN Respond([conn EXCEPT !.calls = r.calls, !.err = r.err], 500, BodyInternalError,
             <<LogRecord("ERROR", "URL verification failed",
                         <<Attr("error", r.err.text)>>)>>)
    ELSE Respond([conn EXCEPT !.calls = r.calls, !.err = r.err], 200, r.plaintext, <<>>)

\* svc.VerifyURL and svc.HandleCallback read nothing but their arguments and
\* the Crypto built at start-up, which no code writes afterwards: what they
\* hand back for each request, computed once
VerifyURLReturns == { <<r, VerifyURL(AppCrypto, r.q)>> : r \in GetRequests }
HandleCallbackReturns ==
    { <<r, HandleCallback(AppCrypto, r.q, r.body)>> : r \in PostRequests }
ReturnFor(returns, r) == (CHOOSE p \in returns : p[1] = r)[2]

\* CallbackHandler.ServeHTTP, case GET, for a request that arrives:
\* CallbackHandler.handleVerifyURL
handleVerifyURL ==
    /\ Len(conns) < MaxRequests
    /\ \E r \in Requests :
          /\ r.method = "GET"
          /\ conns' = Append(conns,
                 VerifyURLResponse(NewConn(r), ReturnFor(VerifyURLReturns, r)))
    /\ UNCHANGED <<crypto, body, sealed, stage, how, result, sigq, sigres, pad, send>>

\* svc.HandleCallback keeping the message ids it has accepted and dispatching
\* no forward for one it has seen
CallbackReturnedOnce(conn, r) ==
    IF r.outcome = "panic" THEN Abort(conn, r.calls)
    ELSE [conn EXCEPT !.pc = "returned", !.err = r.err, !.calls = r.calls,
                      !.logs = @ \o r.logs,
                      !.fwd = IF r.spawn /\ \A j \in DOMAIN conns :
                                               conns[j].msg.MsgID # r.msg.MsgID
                              THEN "spawned" ELSE "none",
                      !.msg = r.msg]

\* the request once svc.HandleCallback has handed back r
CallbackReturned(conn, r) ==
    IF r.outcome = "panic" THEN Abort(conn, r.calls)
    ELSE [conn EXCEPT !.pc = "returned", !.err = r.err, !.calls = r.calls,
                      !.logs = @ \o r.logs,
                      !.fwd = IF r.spawn THEN "spawned" ELSE "none",
                      !.msg = r.msg]

\* the request once io.ReadAll has failed
ReadFailed(conn) ==
    Respond(conn, 500, BodyInternalError,
        <<LogRecord("ERROR", "failed to read request body",
                    <<Attr("error", <<Lit("read error")>>)>>)>>)

\* CallbackHandler.ServeHTTP, case POST, for a request that arrives:
\* CallbackHandler.handleCallback up to the return of svc.HandleCallback, that
\* is io.ReadAll, the query, and the service call with its "go s.forwardToAI"
handleCallbackCall ==
    /\ Len(conns) < MaxRequests
    /\ \E r \in Requests :
          /\ r.method = "POST"
          /\ conns' = Append(conns,
                 IF r.readFails THEN ReadFailed(NewConn(r))
                 ELSE CallbackReturned(NewConn(r), ReturnFor(HandleCallbackReturns, r)))
    /\ UNCHANGED <<crypto, body, sealed, stage, how, result, sigq, sigres, pad, send>>

\* CallbackHandler.handleCallback from the return of svc.HandleCallback on:
\* the error is mapped to a status and the response is written
handleCallbackRespond(i) ==
    /\ conns[i].pc = "returned"
    /\ LET err == conns[i].err
           q == conns[i].req.q
       IN  conns' = [conns EXCEPT ![i] =
               IF ~err.nil /\ ErrorTextContainsUnmarshal(err)
               THEN Respond(@, 400, BodyBadRequest,
                        <<LogRecord("WARN", "callback XML parse failed",
                                    <<Attr("error", err.text)>>)>>)
               ELSE IF ~err.nil /\ ErrorsIs(err, "ErrInvalidSignature")
               THEN Respond(@, 403, BodyForbidden,
                        <<LogRecord("WARN", "callback signature failed",
                                    <<Attr("timestamp", <<Str(q.Timestamp, "request")>>),
                                      Attr("nonce", <<Str(q.Nonce, "request")>>)>>)>>)
               ELSE IF ~err.nil
               THEN Respond(@, 500, BodyInternalError,
                        <<LogRecord("ERROR", "callback processing failed",
                                    <<Attr("error", err.text)>>)>>)
               ELSE Respond(@, 200, BodySuccess, <<>>)]
    /\ UNCHANGED <<crypto, body, sealed, stage, how, result, sigq, sigres, pad, send>>

\* forwardToAI behind a semaphore of one
forwardToAIOneAtATime(i) ==
    /\ conns[i].fwd = "spawned"
    /\ \A j \in DOMAIN conns : conns[j].fwd # "calling"
    /\ conns' = [conns EXCEPT ![i] =
           [@ EXCEPT !.fwd = "calling", !.sends = @ + 1,
                     !.sent = ChatRequest(conns[i].msg)]]
    /\ UNCHANGED <<crypto, body, sealed, stage, how, result, sigq, sigres, pad, send>>

\* serviceImpl.forwardToAI, on its own goroutine, up to its call of
\* aiSvc.SendMessage(ctx, req)
forwardToAI(i) ==
    /\ conns[i].fwd = "spawned"
    /\ conns' = [conns EXCEPT ![i] =
           [@ EXCEPT !.fwd = "calling", !.sends = @ + 1,
                     !.sent = ChatRequest(conns[i].msg)]]
    /\ UNCHANGED <<crypto, body, sealed, stage, how, result, sigq, sigres, pad, send>>

\* serviceImpl.forwardToAI from the return of SendMessage on: the outcome is
\* logged, and nothing else is done with it
forwardToAIReturn(i) ==
    /\ conns[i].fwd = "calling"
    /\ \E ok \in BOOLEAN :
          conns' = [conns EXCEPT ![i] =
              IF ok
              THEN [@ EXCEPT !.fwd = "ok",
                             !.logs = Append(@,
                                 LogRecord("INFO", "message forwarded to AI",
                                     <<Attr("msg_id", <<Str(conns[i].msg.MsgID, "plaintext")>>),
                                       Attr("from_user",
                                            <<Str(conns[i].msg.FromUserName, "plaintext")>>)>>))]
              ELSE [@ EXCEPT !.fwd = "failed",
                             !.logs = Append(@,
                                 LogRecord("ERROR", "failed to forward message to AI",
                                     <<Attr("user_id",
                                            <<Str(conns[i].msg.FromUserName, "plaintext")>>),
                                       Attr("error", SendError.text)>>))]]
    /\ UNCHANGED <<crypto, body, sealed, stage, how, result, sigq, sigres, pad, send>>

\* the steps of the requests in progress
ServeCallbackRespond == \E i \in DOMAIN conns : handleCallbackRespond(i)
RunForwardToAI == \E i \in DOMAIN conns : forwardToAI(i)
RunForwardToAIReturn == \E i \in DOMAIN conns : forwardToAIReturn(i)

Next ==
    \/ MethodNotAllowed
    \/ handleVerifyURL
    \/ handleCallbackCall
    \/ ServeCallbackRespond
    \/ RunForwardToAI
    \/ RunForwardToAIReturn

Spec == InitConns /\ [][Next]_vars

\* the Go scheduler runs every goroutine that can run: a handler that has
\* been entered finishes its steps, and a spawned forward reaches its call.
\* (Nothing makes SendMessage return, and nothing makes a request arrive.)
Fairness ==
    /\ WF_vars(ServeCallbackRespond)
    /\ WF_vars(RunForwardToAI)

FairSpec == Spec /\ Fairness

----------------------------------------------------------------------------
(* adapter/ai: AIClient.SendMessage.  One call, with the context of the    *)
(* request it stems from.  A Go int and a time.Duration are 64 bits wide   *)
(* (amd64, arm64): they are kept as eight bytes, least significant first.  *)

\* largest ai.retry configured
MaxRetry == 36

\* n, 0 <= n < 2^24, in w bytes
Wide(n, w) ==
    Seq2Tuple([k \in 1..w |-> IF k = 1 THEN n % 256
                              ELSE IF k = 2 THEN (n \div 256) % 256
                              ELSE IF k = 3 THEN (n \div 65536) % 256
                              ELSE 0])

\* the bytes from the k-th on of b << 1 in Len(b) bytes
RECURSIVE Shl1From(_, _)
Shl1From(b, k) ==
    IF k > Len(b) THEN <<>>
    ELSE <<((2 * b[k]) % 256) + (IF k > 1 THEN b[k - 1] \div 128 ELSE 0)>>
             \o Shl1From(b, k + 1)

\* b << 1 in Len(b) bytes
Shl1(b) == Shl1From(b, 1)

\* b << i in Len(b) bytes
RECURSIVE Shl(_, _)
Shl(b, i) ==
    IF i = 0 THEN b
    ELSE IF i >= 8 THEN Shl(<<0>> \o SubSeq(b, 1, Len(b) - 1), i - 8)
    ELSE Shl(Shl1(b), i - 1)

\* the bytes from the k-th on of b * m in Len(b) bytes, m < 2^22
RECURSIVE MulFrom(_, _, _, _)
MulFrom(b, m, k, carry) ==
    IF k > Len(b) THEN <<>>
    ELSE <<(b[k] * m + carry) % 256>> \o MulFrom(b, m, k + 1, (b[k] * m + carry) \div 256)

\* b * m in Len(b) bytes
Mul(b, m) == MulFrom(b, m, 1, 0)

\* time.Millisecond, in nanoseconds
Millisecond == 1000000

\* delay := time.Duration(500<<uint(i)) * time.Millisecond
Delay(i) == Mul(Shl(Wide(500, 8), i), Millisecond)

\* a time.Duration d is at most zero: time.After(d) fires at once
NotPositive(d) == d[8] >= 128 \/ \A k \in 1..8 : d[k] = 0

\* r.Context() of the originating request: cancelled with the request
RequestContext == [cancels |-> TRUE]

\* a context that hands on the cancellation of ctx
SameContext(ctx) == ctx

\* context.WithoutCancel(ctx)
WithoutCancel(ctx) == [cancels |-> FALSE]

\* <-ctx.Done() can be received, the request's context being cancelled or not
Done(ctx, cancelled) == ctx.cancels /\ cancelled

NoReturn == [kind |-> "none", attempt |-> 0]

\* c.retry is any of 0..MaxRetry, and SendMessage is entered either by
\* forwardToAI, with context.WithoutCancel(ctx), or by a caller that hands
\* on the request's context as it is
InitSend ==
    /\ crypto = NewCrypto(Token, EncodingAESKey(1), CorpID(1)).crypto
    /\ \E r \in 0..MaxRetry, by \in {"forwardToAI", "direct"} :
          send = [retry |-> r, caller |-> by,
                  ctx |-> IF by = "forwardToAI" THEN WithoutCancel(RequestContext)
                          ELSE RequestContext,
                  cancelled |-> FALSE, cancelledInWait |-> FALSE,
                  handler |-> "returned",
                  pc |-> "attempt", i |-> 0, attempts |-> 0, failed |-> 0,
                  waits |-> <<>>, ret |-> NoReturn]
    /\ pad = <<>>
    /\ CipherIdle
    /\ SigIdle
    /\ ConnsIdle

\* c.doRequest(ctx, body) returns a response: SendMessage returns it
doRequestOk ==
    /\ send.pc = "attempt"
    /\ send' = [send EXCEPT !.attempts = @ + 1, !.pc = "returned",
                            !.ret = [kind |-> "resp", attempt |-> send.i]]
    /\ UNCHANGED <<crypto, body, sealed, stage, how, result, sigq, sigres, conns, pad>>

\* c.doRequest(ctx, body) returns an error: the wait, or after the last
\* attempt the end of the loop and the error return
doRequestFail ==
    /\ send.pc = "attempt"
    /\ send' = IF send.i < send.retry
               THEN [send EXCEPT !.attempts = @ + 1, !.failed = @ + 1, !.pc = "wait"]
               ELSE [send EXCEPT !.attempts = @ + 1, !.failed = @ + 1, !.pc = "returned",
                                 !.ret = [kind |-> "exhausted", attempt |-> send.i]]
    /\ UNCHANGED <<crypto, body, sealed, stage, how, result, sigq, sigres, conns, pad>>

\* case <-time.After(delay): the next iteration
WaitElapsed ==
    /\ send.pc = "wait"
    /\ send' = [send EXCEPT !.waits = Append(@, Delay(send.i)), !.i = @ + 1,
                            !.pc = "attempt"]
    /\ UNCHANGED <<crypto, body, sealed, stage, how, result, sigq, sigres, conns, pad>>

\* case <-ctx.Done(): return nil, ctx.Err()
WaitCancelled ==
    /\ send.pc = "wait"
    /\ Done(send.ctx, send.cancelled)
    /\ send' = [send EXCEPT !.pc = "returned",
                            !.ret = [kind |-> "ctxErr", attempt |-> send.i]]
    /\ UNCHANGED <<crypto, body, sealed, stage, how, result, sigq, sigres, conns, pad>>

\* the client closes the connection: net/http cancels the request's context
CancelRequest ==
    /\ ~send.cancelled
    /\ send' = [send EXCEPT !.cancelled = TRUE, !.cancelledInWait = (send.pc = "wait")]
    /\ UNCHANGED <<crypto, body, sealed, stage, how, result, sigq, sigres, conns, pad>>

\* the handler of the originating request writes its response and returns:
\* net/http cancels the request's context
HandlerRespond ==
    /\ send.handler = "returned"
    /\ send' = [send EXCEPT !.handler = "done", !.cancelled = TRUE,
                            !.cancelledInWait = @ \/ (~send.cancelled /\ send.pc = "wait")]
    /\ UNCHANGED <<crypto, body, sealed, stage, how, result, sigq, sigres, conns, pad>>

NextSend ==
    \/ doRequestOk
    \/ doRequestFail
    \/ WaitElapsed
    \/ WaitCancelled
    \/ CancelRequest
    \/ HandlerRespond

SpecSend == InitSend /\ [][NextSend]_vars

----------------------------------------------------------------------------
(* Properties of the cipher (SpecCipher) *)

\* the payload of the cipher run before padding is a whole number of blocks
PayloadAligned == (20 + Len(body) + Len(crypto.corpID)) % BlockSize = 0

\* C1: Decrypt(Encrypt(p)) succeeds and returns exactly p, for every body,
\* every draw of the 16 random bytes and every cipher instance, whether or
\* not the payload was block-aligned before padding.
RoundTrip ==
    (stage = "decrypted" /\ how.kind = "encrypt")
        => (result.outcome = "ok" /\ result.msg = body)

\* C1 witness: an empty body in a block-aligned payload came back from Decrypt
RoundTripAligned ==
    /\ stage = "decrypted"
    /\ how.kind = "encrypt"
    /\ body = <<>>
    /\ PayloadAligned
    /\ result.outcome = "ok"

\* C2 as stated: after any single-bit flip of the ciphertext, Decrypt returns
\* a padding, length-mismatch or tenant-mismatch error.
TamperAlwaysRejected ==
    (stage = "decrypted" /\ how.kind = "flip")
        => /\ result.outcome = "error"
           /\ result.stage \in {"padding", "lengthMismatch", "tenantMismatch"}

\* C2 amended: after any single-bit flip of the ciphertext Decrypt never
\* returns the original body; a flip in the first ciphertext block at byte
\* offset 4+k, k < len(p), is accepted and returns p with that bit of byte k
\* inverted.
TamperNeverRestoresBody ==
    (stage = "decrypted" /\ how.kind = "flip")
        => /\ ~(result.outcome = "ok" /\ result.msg = body)
           /\ (how.byte \in 5..BlockSize /\ how.byte - 4 <= Len(body))
                 => /\ result.outcome = "ok"
                    /\ result.msg = FlipBit(body, how.byte - 4, how.bit)

\* C2 witness: a flipped ciphertext was accepted with an altered body
TamperAccepted ==
    /\ stage = "decrypted"
    /\ how.kind = "flip"
    /\ result.outcome = "ok"
    /\ result.msg # body

\* the declared length of a forged payload exceeds what the plaintext holds,
\* in unbounded arithmetic: 20 + L > len(plaintext)
DeclaredTooLong ==
    LET l == BigEndianUint32(how.lenField)
    IN  l.hi > 0 \/ 20 + l.lo > 20 + Len(body) + Len(how.trailer)

\* C3: whenever 20 + L > len(plaintext), Decrypt returns the length-mismatch
\* error (it never slices, panics or returns a body).
DeclaredLengthChecked ==
    (stage = "decrypted" /\ how.kind = "forge" /\ DeclaredTooLong)
        => (result.outcome = "error" /\ result.stage = "lengthMismatch")

\* the declared length of a forged payload, when it is below 2^16
DeclaredLen == BigEndianUint32(how.lenField).lo

\* the bytes of a forged payload after offset 20
AfterHeader == body \o how.trailer

\* C15: on a validly padded payload of at least 20 bytes whose declared
\* length L has 20 + L <= len(payload), Decrypt returns the tenant-mismatch
\* error whenever the bytes after offset 20+L are not exactly the configured
\* tenant ID, and returns the bytes [20, 20+L) only when they are.
TenantEnforced ==
    (stage = "decrypted" /\ how.kind = "forge" /\ ~DeclaredTooLong)
        => IF SubSeq(AfterHeader, DeclaredLen + 1, Len(AfterHeader)) # crypto.corpID
           THEN result.outcome = "error" /\ result.stage = "tenantMismatch"
           ELSE /\ result.outcome = "ok"
                /\ result.msg = SubSeq(AfterHeader, 1, DeclaredLen)

\* C15 witness: a payload whose trailer is the tenant ID with one more byte
\* after it, its declared length being that of its body, was rejected
TenantExtensionRejected ==
    /\ stage = "decrypted"
    /\ how.kind = "forge"
    /\ DeclaredLen = Len(body)
    /\ ~DeclaredTooLong
    /\ Len(how.trailer) = Len(crypto.corpID) + 1
    /\ SubSeq(how.trailer, 1, Len(crypto.corpID)) = crypto.corpID
    /\ result.stage = "tenantMismatch"

\* the earliest stage that fails on the unpadded plaintext u, or "done"
StageOfUnpadded(c, u, len) ==
    IF Len(u) < 20 THEN "tooShort"
    ELSE IF len.hi > 0 \/ 20 + len.lo > Len(u) THEN "lengthMismatch"
    ELSE IF SubSeq(u, 21 + len.lo, Len(u)) # c.corpID THEN "tenantMismatch"
    ELSE "done"

\* the earliest stage that fails on the decrypted blocks pt, p being their
\* last byte
StageOfPlain(c, pt, p) ==
    IF p = 0 \/ p > 16 \/ p > Len(pt) THEN "padding"
    ELSE IF \E i \in (Len(pt) - p + 1)..Len(pt) : pt[i] # p THEN "padding"
    ELSE StageOfUnpadded(c, SubSeq(pt, 1, Len(pt) - p),
                         BigEndianUint32(SubSeq(pt, 17, 20)))

\* the earliest stage that fails on the decrypted blocks pt
StageOfBlocks(c, pt) == StageOfPlain(c, pt, pt[Len(pt)])

\* the earliest stage that fails on what base64 decoding returned
StageOfDecoded(c, d) ==
    IF ~d.err.nil THEN "decode"
    ELSE IF Len(d.bytes) = 0 \/ Len(d.bytes) % 16 # 0 THEN "alignment"
    ELSE StageOfBlocks(c, CBCDecrypt(c.aesKey, SubSeq(c.aesKey, 1, BlockSize), d.bytes))

\* C19: on every input Decrypt reports the error of the earliest failing
\* stage in the order base64 decode, alignment, padding removal, minimum
\* length, declared-length check, tenant check (an empty or misaligned input
\* ends at the alignment error), and returns a body only when all six pass.
DecryptStageOrder ==
    stage = "decrypted"
        => /\ result.stage = StageOfDecoded(crypto, DecodeString(sealed))
           /\ result.outcome = (IF result.stage = "done" THEN "ok" ELSE "error")

----------------------------------------------------------------------------
(* Properties of the signature (SpecSig) *)

\* the sorted, separator-less concatenation of the token and query q's strings
SortedConcat(q) == Join(SortStrings(<<Token, q.timestamp, q.nonce, q.msgEncrypt>>))

\* C4 as stated: once a query verifies, replacing exactly one of its four
\* strings by a different string makes VerifySignature return false.
SignatureSensitive ==
    (sigres.done = 2 /\ sigres.original) => ~sigres.changed

\* C4 amended: once a query verifies, replacing the signature makes it fail,
\* and replacing one of timestamp, nonce, ciphertext field makes it fail
\* exactly when the sorted, separator-less concatenation changes.
SignatureSensitiveUpToConcat ==
    (sigres.done = 2 /\ sigres.original)
        => (sigres.changed <=>
               /\ sigq.field # "signature"
               /\ SortedConcat(Replaced(sigq.query, sigq.field, sigq.repl))
                      = SortedConcat(sigq.query))

\* C4 witness: a verified query fails after its nonce is replaced
NonceChangeRejected ==
    /\ sigres.done = 2
    /\ sigres.original
    /\ sigq.field = "nonce"
    /\ ~sigres.changed

----------------------------------------------------------------------------
(* Properties of the callback flows (Spec, FairSpec) *)

Range(f) == {f[k] : k \in DOMAIN f}

\* the envelope enc parsed and the signature of query q verifies over it
SignedEnvelope(q, enc) ==
    /\ enc.err.nil
    /\ VerifySignature(AppCrypto, q.MsgSignature, q.Timestamp, q.Nonce, enc.v.Encrypt)

\* the POSTs whose body is read, whose envelope parses and whose signature
\* verifies
SignedDeliveries ==
    { r \in PostRequests :
        ~r.readFails /\ SignedEnvelope(r.q, UnmarshalEncryptedBody(r.body)) }

\* the outcome of Decrypt on the Encrypt field of each of them
DeliveryDecrypts ==
    { <<r, Decrypt(AppCrypto, UnmarshalEncryptedBody(r.body).v.Encrypt)>> :
        r \in SignedDeliveries }

\* those on which Decrypt returns an error
FailedDeliveries == { p[1] : p \in { d \in DeliveryDecrypts : d[2].outcome = "error" } }

\* those on which Decrypt succeeds and the message XML parses, each with
\* its message
DeliveredMessages ==
    { p \in { <<d[1], UnmarshalMessage(d[2].msg)>> :
                  d \in { d \in DeliveryDecrypts : d[2].outcome = "ok" } } :
        p[2].err.nil }

\* a text message whose content holds '@'
IsMention(m) == m.MsgType = MsgTypeText /\ 64 \in Range(m.Content)

MentionDeliveries == { p \in DeliveredMessages : IsMention(p[2].v) }
OtherDeliveries == { p[1] : p \in { d \in DeliveredMessages : ~IsMention(d[2].v) } }

\* C5: a POST whose envelope parses and whose signature verifies, and on
\* which Decrypt fails at any stage, is answered 500 and dispatches no forward,
\* whatever the text of the error.
DecryptFailureAnswered500 ==
    \A i \in DOMAIN conns :
        conns[i].req \in FailedDeliveries
            => /\ conns[i].fwd = "none"
               /\ conns[i].pc = "done" => conns[i].status = 500

\* the text fragments of the log records written for request c
LoggedFragments(c) ==
    UNION { UNION { Range(c.logs[k].attrs[a].value) : a \in DOMAIN c.logs[k].attrs } :
              k \in DOMAIN c.logs }

\* C6: no log record written in the handshake and delivery flows holds bytes
\* derived from the decrypted plaintext or from the key.
LogsFreeOfPlaintextAndKey ==
    \A i \in DOMAIN conns :
        \A f \in LoggedFragments(conns[i]) : f.from \notin {"plaintext", "key"}

\* C7: a POST whose envelope parses, whose signature verifies, whose
\* ciphertext decrypts and whose message is a text holding '@' is answered
\* 200 "success", and SendMessage is eventually invoked exactly once for it,
\* with Content the message content, UserID the sender and Source "wework".
MentionForwardedOnce ==
    /\ [](\A i \in DOMAIN conns : \A p \in MentionDeliveries :
             conns[i].req = p[1]
                 => /\ conns[i].pc # "aborted"
                    /\ conns[i].pc = "done"
                          => (conns[i].status = 200 /\ conns[i].respBody = BodySuccess)
                    /\ conns[i].sends <= 1
                    /\ conns[i].sends = 1
                          => /\ conns[i].sent.Content = p[2].v.Content
                             /\ conns[i].sent.UserID = p[2].v.FromUserName
                             /\ conns[i].sent.Source = SourceWework)
    /\ \A i \in 1..MaxRequests :
          (i \in DOMAIN conns /\ conns[i].req \in {p[1] : p \in MentionDeliveries})
              ~> (i \in DOMAIN conns /\ conns[i].pc = "done" /\ conns[i].sends = 1)

\* C7 witness: a mention was answered 200 "success" and SendMessage was
\* invoked once for it
MentionForwarded ==
    \E i \in DOMAIN conns :
        /\ conns[i].req \in {p[1] : p \in MentionDeliveries}
        /\ conns[i].pc = "done"
        /\ conns[i].status = 200
        /\ conns[i].sends = 1
        /\ conns[i].sent.Content = ContentMention

\* C8: a POST that passes parsing, signature and decryption and whose message
\* is not a text, or is a text without '@', is answered 200 "success" and
\* SendMessage is never invoked for it.
OtherNeverForwarded ==
    \A i \in DOMAIN conns :
        conns[i].req \in OtherDeliveries
            => /\ conns[i].pc # "aborted"
               /\ conns[i].pc = "done"
                     => (conns[i].status = 200 /\ conns[i].respBody = BodySuccess)
               /\ conns[i].fwd = "none"
               /\ conns[i].sends = 0

\* C8 witness: a message other than a text, with '@' in its content, was
\* answered 200 "success"
ImageAnswered ==
    \E i \in DOMAIN conns : \E p \in DeliveredMessages :
        /\ conns[i].req = p[1]
        /\ p[2].v.MsgType # MsgTypeText
        /\ 64 \in Range(p[2].v.Content)
        /\ conns[i].pc = "done"
        /\ conns[i].status = 200

\* the GETs whose signature over (timestamp, nonce, echostr) verifies
SignedHandshakes ==
    { r \in GetRequests :
        VerifySignature(AppCrypto, r.q.MsgSignature, r.q.Timestamp, r.q.Nonce,
                        r.q.Echostr) }

\* the outcome of Decrypt on the echostr of each of them
HandshakeDecrypts == { <<r, Decrypt(AppCrypto, r.q.Echostr)>> : r \in SignedHandshakes }

\* C9: a GET whose signature over (timestamp, nonce, echostr) does not verify
\* is answered 403, and Decrypt is never invoked for it.
UnsignedHandshakeRejected ==
    \A i \in DOMAIN conns :
        conns[i].req \in GetRequests \ SignedHandshakes
            => /\ "Decrypt" \notin Range(conns[i].calls)
               /\ conns[i].pc # "aborted"
               /\ conns[i].pc = "done" => conns[i].status = 403

\* C9 witness: the handshake with one character of its nonce altered was
\* answered 403
AlteredNonceRejected ==
    \E i \in DOMAIN conns :
        /\ conns[i].req \in GetRequests \ SignedHandshakes
        /\ conns[i].req.q.Nonce = AlteredNonce
        /\ conns[i].pc = "done"
        /\ conns[i].status = 403

\* C10: a GET whose signature verifies is answered 200 with exactly the body
\* Decrypt(echostr) returns when Decrypt succeeds, and 500 when Decrypt
\* returns an error.
SignedHandshakeAnswered ==
    \A i \in DOMAIN conns : \A d \in HandshakeDecrypts :
        conns[i].req = d[1]
            => /\ d[2].outcome = "ok"
                     => /\ conns[i].pc = "done"
                        /\ conns[i].status = 200
                        /\ conns[i].respBody = d[2].msg
               /\ d[2].outcome = "error"
                     => /\ conns[i].pc = "done"
                        /\ conns[i].status = 500

\* C10 witness: one handshake was answered 200 with the echo string, and one
\* on which Decrypt returned an error was answered 500
BothHandshakesAnswered ==
    /\ \E i \in DOMAIN conns : \E d \in HandshakeDecrypts :
          /\ conns[i].req = d[1]
          /\ d[2].outcome = "ok"
          /\ conns[i].status = 200
          /\ conns[i].respBody = EchoPlain
    /\ \E i \in DOMAIN conns : \E d \in HandshakeDecrypts :
          /\ conns[i].req = d[1]
          /\ d[2].outcome = "error"
          /\ conns[i].status = 500

\* the POSTs whose body is read and does not parse as the envelope
MalformedDeliveries ==
    { r \in PostRequests : ~r.readFails /\ ~UnmarshalEncryptedBody(r.body).err.nil }

\* C11: a POST whose body does not parse as the XML envelope is answered 400,
\* and neither VerifySignature nor Decrypt is invoked nor a forward
\* dispatched for it.
MalformedEnvelopeRejected ==
    \A i \in DOMAIN conns :
        conns[i].req \in MalformedDeliveries
            => /\ conns[i].calls = <<>>
               /\ conns[i].fwd = "none"
               /\ conns[i].sends = 0
               /\ conns[i].pc # "aborted"
               /\ conns[i].pc = "done" => conns[i].status = 400

\* C11 witness: a POST whose body is not XML was answered 400
MalformedAnswered ==
    \E i \in DOMAIN conns :
        /\ conns[i].req \in MalformedDeliveries
        /\ conns[i].req.body = DocNotXml
        /\ conns[i].pc = "done"
        /\ conns[i].status = 400

\* the POSTs whose body is read and whose envelope parses, but whose
\* signature over (timestamp, nonce, Encrypt) does not verify
UnsignedDeliveries ==
    { r \in PostRequests \ (MalformedDeliveries \cup SignedDeliveries) : ~r.readFails }

\* C12: a POST whose envelope parses but whose signature does not verify is
\* answered 403; Decrypt is never invoked and no forward is dispatched for it.
UnsignedDeliveryRejected ==
    \A i \in DOMAIN conns :
        conns[i].req \in UnsignedDeliveries
            => /\ "Decrypt" \notin Range(conns[i].calls)
               /\ conns[i].fwd = "none"
               /\ conns[i].sends = 0
               /\ conns[i].pc # "aborted"
               /\ conns[i].pc = "done" => conns[i].status = 403

\* C12 witness: a delivery with one character of its nonce altered was
\* answered 403 after VerifySignature alone
UnsignedDeliveryAnswered ==
    \E i \in DOMAIN conns :
        /\ conns[i].req \in UnsignedDeliveries
        /\ conns[i].req.q.Nonce = AlteredNonce
        /\ conns[i].calls = <<"VerifySignature">>
        /\ conns[i].pc = "done"
        /\ conns[i].status = 403

MentionRequests == {p[1] : p \in MentionDeliveries}

\* C13: two runs of the same mention delivery that differ only in what the
\* collaborator does (answers, fails, never returns) are answered alike, with
\* 200 "success", and a failed SendMessage is not followed by another one.
ForwardOutcomeInvisible ==
    /\ \A i \in DOMAIN conns : \A j \in DOMAIN conns :
          ( /\ conns[i].req \in MentionRequests
            /\ conns[j].req = conns[i].req
            /\ conns[i].pc = "done"
            /\ conns[j].pc = "done" )
              => /\ conns[i].status = conns[j].status
                 /\ conns[i].respBody = conns[j].respBody
                 /\ conns[i].status = 200
                 /\ conns[i].respBody = BodySuccess
    /\ \A i \in DOMAIN conns :
          (conns[i].req \in MentionRequests /\ conns[i].fwd = "failed")
              => (conns[i].sends = 1 /\ ~ENABLED forwardToAI(i))

\* C13 witness: the same mention delivery twice, SendMessage failing for one
\* before its response and not returning for the other, both answered
OutcomesDiffer ==
    \E i \in DOMAIN conns : \E j \in DOMAIN conns :
        /\ conns[i].req \in MentionRequests
        /\ conns[j].req = conns[i].req
        /\ conns[i].fwd = "failed"
        /\ conns[j].fwd = "calling"
        /\ conns[i].pc = "done"
        /\ conns[j].pc = "done"

\* C16: the forward's call of SendMessage begins only after the response of
\* its request has been written.
ForwardAfterResponse ==
    \A i \in DOMAIN conns :
        conns[i].fwd \in {"calling", "ok", "failed"} => conns[i].pc = "done"

\* C20: nothing bounds the forwards in flight: whatever the other requests'
\* forwards are doing, a request is taken up, an entered handler can write
\* its response, and a spawned forward can call SendMessage.
ForwardsUnbounded ==
    /\ Len(conns) < MaxRequests => ENABLED handleCallbackCall
    /\ \A i \in DOMAIN conns :
          /\ conns[i].pc = "returned" => ENABLED handleCallbackRespond(i)
          /\ conns[i].fwd = "spawned" => ENABLED forwardToAI(i)

\* C20 witness: MaxRequests mention deliveries, every one answered
\* 200 "success", every forward in its call of SendMessage
AllForwardsInFlight ==
    /\ Len(conns) = MaxRequests
    /\ \A i \in DOMAIN conns :
          /\ conns[i].req \in MentionRequests
          /\ conns[i].pc = "done"
          /\ conns[i].status = 200
          /\ conns[i].respBody = BodySuccess
          /\ conns[i].fwd = "calling"

\* the requests taken up so far that are validly signed mention deliveries
Qualifying == { i \in DOMAIN conns : conns[i].req \in MentionRequests }

\* the number of SendMessage invocations made for the first k requests
RECURSIVE InvocationsUpTo(_)
InvocationsUpTo(k) == IF k = 0 THEN 0 ELSE conns[k].sends + InvocationsUpTo(k - 1)

Invocations == InvocationsUpTo(Len(conns))

\* every qualifying request is answered 200 "success" and has had its one
\* SendMessage invocation
AllQualifyingForwarded ==
    /\ Invocations = Cardinality(Qualifying)
    /\ \A i \in Qualifying :
          conns[i].pc = "done" /\ conns[i].status = 200 /\ conns[i].respBody = BodySuccess

\* C21: the delivery flow suppresses no replay.  Whatever requests came
\* before it, equal ones included, a validly signed mention delivery has a
\* forward dispatched and is answered 200 "success"; SendMessage is invoked
\* for no other request and at most once for each; the invocations for equal
\* requests carry equal content; and in the end the number of invocations
\* equals the number of qualifying requests taken up.
NoReplaySuppression ==
    /\ [](/\ Invocations <= Cardinality(Qualifying)
          /\ \A i \in DOMAIN conns :
                /\ conns[i].sends <= 1
                /\ i \notin Qualifying => conns[i].sends = 0
                /\ i \in Qualifying
                      => /\ conns[i].fwd # "none"
                         /\ conns[i].pc \in {"returned", "done"}
                         /\ conns[i].pc = "done"
                               => (conns[i].status = 200 /\ conns[i].respBody = BodySuccess)
          /\ \A i \in Qualifying : \A j \in Qualifying :
                (conns[i].req = conns[j].req /\ conns[i].sends = 1 /\ conns[j].sends = 1)
                    => conns[i].sent = conns[j].sent)
    /\ <>[]AllQualifyingForwarded

\* C21 witness: the same mention delivery taken up MaxRequests times, every
\* one answered 200 "success", SendMessage invoked MaxRequests times with the
\* same request
MentionReplayed ==
    /\ Len(conns) = MaxRequests
    /\ Invocations = MaxRequests
    /\ \A i \in DOMAIN conns :
          /\ conns[i].req \in MentionRequests
          /\ conns[i].req = conns[1].req
          /\ conns[i].pc = "done"
          /\ conns[i].status = 200
          /\ conns[i].respBody = BodySuccess
          /\ conns[i].sends = 1
          /\ conns[i].sent = conns[1].sent
          /\ conns[i].sent.Content = ContentMention

----------------------------------------------------------------------------
(* Properties of the padding (SpecPad) *)

\* the last byte of the buffer of the padding run
LastByte == pad.buf[Len(pad.buf)]

\* what the padding rule rejects: last byte p is 0, or above 16, or above
\* the buffer length, or one of the last p bytes is not p
PaddingRejected ==
    \/ LastByte = 0
    \/ LastByte > 16
    \/ LastByte > Len(pad.buf)
    \/ \E i \in 1..Len(pad.buf) : i > Len(pad.buf) - LastByte /\ pad.buf[i] # LastByte

\* C14: on a non-empty buffer pkcs7Unpad returns an error whenever the last
\* byte p is 0, above 16, above the buffer length, or one of the last p bytes
\* differs from p; otherwise it returns the buffer without its last p bytes.
UnpadValidates ==
    pad.out.called
        => IF PaddingRejected
           THEN ~pad.out.err.nil
           ELSE /\ pad.out.err.nil
                /\ pad.out.data = SubSeq(pad.buf, 1, Len(pad.buf) - LastByte)

\* C14 witness: a buffer ending in 16 bytes of value 16 but for one of
\* them was rejected
LongPaddingRejected ==
    /\ pad.out.called
    /\ LastByte = 16
    /\ Len(pad.buf) >= 16
    /\ \E i \in 1..Len(pad.buf) : i > Len(pad.buf) - 16 /\ pad.buf[i] # 16
    /\ ~pad.out.err.nil

----------------------------------------------------------------------------
(* Properties of SendMessage (SpecSend) *)

\* C17: a forward that has been dispatched is not aborted by the cancelling
\* or the completion of the originating request's context: its SendMessage,
\* waits included, ends only by a response or by the last attempt failing;
\* and the handler never waits for it.
ForwardDetached ==
    send.caller = "forwardToAI"
        => /\ send.ret.kind \in {"none", "resp", "exhausted"}
           /\ ~ENABLED WaitCancelled
           /\ send.handler = "returned" => ENABLED HandlerRespond

\* C17 witness: the request's context was cancelled during a wait of the
\* forward, and SendMessage went on to a later attempt and its response
ForwardOutlivesRequest ==
    /\ send.caller = "forwardToAI"
    /\ send.cancelledInWait
    /\ send.handler = "done"
    /\ send.ret.kind = "resp"
    /\ send.ret.attempt >= 1

\* 500ms doubled i times, in nanoseconds, in sixteen bytes
ExactDelay(i) == Mul(Shl(Wide(500, 16), i), Millisecond)

\* the wait d is 500ms doubled i times
WaitIsExact(d, i) ==
    /\ ~NotPositive(d)
    /\ d \o <<0, 0, 0, 0, 0, 0, 0, 0>> = ExactDelay(i)

\* C18: SendMessage makes its attempts one after the other, at most
\* retry + 1 of them, stops at the first that succeeds and returns its
\* response, waits 500ms doubled for each earlier failure between two
\* attempts and not after the last, and returns an error exactly when all
\* retry + 1 attempts failed or the context was cancelled during a wait.
BoundedRetry ==
    /\ send.attempts <= send.retry + 1
    /\ send.failed \in {send.attempts - 1, send.attempts}
    /\ \A k \in 1..Len(send.waits) : WaitIsExact(send.waits[k], k - 1)
    /\ send.pc = "attempt" => Len(send.waits) = send.attempts
    /\ send.pc = "wait" => Len(send.waits) = send.attempts - 1
    /\ send.pc = "returned"
          => /\ send.ret.kind \in {"resp", "exhausted", "ctxErr"}
             /\ Len(send.waits) = send.attempts - 1
             /\ send.ret.kind = "resp" <=> send.failed = send.attempts - 1
             /\ send.ret.kind = "exhausted"
                   <=> (send.failed = send.retry + 1)
             /\ send.ret.kind = "ctxErr"
                   <=> (send.failed = send.attempts /\ send.failed <= send.retry)
             /\ send.ret.kind = "ctxErr" => (send.cancelled /\ send.ctx.cancels)

====
